---- MODULE Spec2Model ----
(***************************************************************************)
(* Company deduplication custom-code action (src/company_dedup.js).        *)
(*                                                                         *)
(* The remote CRM store is the variable `companies`; every call of         *)
(* exports.main is one entry of `inv`.  An action is one promise callback  *)
(* of the script: the store answers the outstanding remote call of an     *)
(* invocation and the handler registered for that answer runs up to the    *)
(* next remote call it issues (or up to the end of the invocation).        *)
(***************************************************************************)
EXTENDS Integers, Sequences, FiniteSets, TLC

VARIABLES companies, inv

vars == <<companies, inv>>

----------------------------------------------------------------------------
(* Bounds of the model *)

\* number of times the workflow calls exports.main
MaxInvocations == 2

\* number of successive calls of exports.main for one record
MaxRetriggers == 3

\* longest search answer of the specification with arbitrary answers
MaxResults == 3

\* identifiers of the company records in the store at the start
Ids == {2, 9, 10}

----------------------------------------------------------------------------
(* Configuration constants of the script *)

DEDUPE_PROPERTY == "name"

SECONDARY_PROPERTIES == <<"domain", "linkedin_company_page", "sales_navigator_url">>

DEDUPLICATION_STATUS_PROPERTY == "deduplication_status"

SearchLimit == 100

\* an absent (null / undefined / empty) property value: falsy in JavaScript
NoValue == ""

----------------------------------------------------------------------------
(* JavaScript values used as identifiers.  An identifier is a number       *)
(* (event.object.objectId) or a string of decimal digits (the `id` of a    *)
(* search result); `dig` holds its decimal digits.                         *)

RECURSIVE DigitsToNat(_)
DigitsToNat(d) ==
  IF d = <<>> THEN 0
  ELSE 10 * DigitsToNat(SubSeq(d, 1, Len(d) - 1)) + d[Len(d)]

RECURSIVE NatToDigits(_)
NatToDigits(n) ==
  IF n < 10 THEN <<n>> ELSE Append(NatToDigits(n \div 10), n % 10)

JSString(n) == [typ |-> "string", dig |-> NatToDigits(n)]

JSNumber(n) == [typ |-> "number", dig |-> NatToDigits(n)]

Undefined == [typ |-> "undefined", dig |-> <<>>]

\* Number(x)
Number(x) == DigitsToNat(x.dig)

\* variant: the comparison of a sort() without comparator, by string, code
\* unit by code unit (-1, 0, 1)
RECURSIVE compareNumeric_Lexicographic(_, _)
compareNumeric_Lexicographic(a, b) ==
  IF a.dig = <<>> /\ b.dig = <<>> THEN 0
  ELSE IF a.dig = <<>> THEN -1
  ELSE IF b.dig = <<>> THEN 1
  ELSE IF Head(a.dig) < Head(b.dig) THEN -1
  ELSE IF Head(a.dig) > Head(b.dig) THEN 1
  ELSE compareNumeric_Lexicographic([a EXCEPT !.dig = Tail(a.dig)],
                                    [b EXCEPT !.dig = Tail(b.dig)])

\* (a, b) => Number(a) - Number(b)
compareNumeric(a, b) == Number(a) - Number(b)

\* Array.prototype.sort(compare) is stable: insertion of x after the last
\* element that does not compare greater than it
RECURSIVE InsertSorted(_, _)
InsertSorted(s, x) ==
  IF s = <<>> THEN <<x>>
  ELSE IF compareNumeric(s[Len(s)], x) <= 0 THEN Append(s, x)
  ELSE Append(InsertSorted(SubSeq(s, 1, Len(s) - 1), x), s[Len(s)])

RECURSIVE SortNumeric(_)
SortNumeric(s) ==
  IF s = <<>> THEN <<>>
  ELSE InsertSorted(SortNumeric(SubSeq(s, 1, Len(s) - 1)), s[Len(s)])

Range(s) == {s[k] : k \in 1..Len(s)}

\* variant: the list is used as it is, repeated members kept
SetOrder_Identity(s) == s

\* [...new Set(s)]: first occurrences, in order
RECURSIVE SetOrder(_)
SetOrder(s) ==
  IF s = <<>> THEN <<>>
  ELSE LET front == SetOrder(SubSeq(s, 1, Len(s) - 1))
       IN  IF s[Len(s)] \in Range(front) THEN front ELSE Append(front, s[Len(s)])

----------------------------------------------------------------------------
(* The remote store *)

PropertyNames == {"name", "domain", "linkedin_company_page",
                  "sales_navigator_url", "deduplication_status"}

\* the property values a company record starts with: no name, a name
\* alone, a name with two secondary identifiers; no status yet
Unnamed ==
  [name |-> NoValue, domain |-> "acme.com", linkedin_company_page |-> NoValue,
   sales_navigator_url |-> NoValue, deduplication_status |-> NoValue]

NameOnly ==
  [name |-> "Acme", domain |-> NoValue, linkedin_company_page |-> NoValue,
   sales_navigator_url |-> NoValue, deduplication_status |-> NoValue]

Identified ==
  [name |-> "Acme", domain |-> "acme.com", linkedin_company_page |-> "li/acme",
   sales_navigator_url |-> NoValue, deduplication_status |-> NoValue]

\* the stores an execution starts from: three duplicates of each other; two
\* duplicates beside a record without name; an identified record beside a
\* name-only record (which finds it by name alone) and an unnamed one; the
\* same with the oldest record identified too; a record marked 'primary' by
\* an earlier run beside an older record that has come to match it
InitialStores ==
  { (2 :> Identified @@ 9 :> Identified @@ 10 :> Identified),
    (2 :> Identified @@ 9 :> [Identified EXCEPT !.deduplication_status = "primary"]
       @@ 10 :> Unnamed),
    (2 :> Unnamed @@ 9 :> Identified @@ 10 :> Identified),
    (2 :> Unnamed @@ 9 :> NameOnly @@ 10 :> Identified),
    (2 :> Identified @@ 9 :> NameOnly @@ 10 :> Identified) }

\* a record satisfies a filter group when it satisfies all its filters
MatchesGroup(properties, group) ==
  \A k \in 1..Len(group.filters) :
     /\ group.filters[k].operator = "EQ"
     /\ properties[group.filters[k].propertyName] = group.filters[k].value

\* identifiers of the records matching at least one of the filter groups
Matching(filterGroups) ==
  {n \in DOMAIN companies :
     \E g \in 1..Len(filterGroups) : MatchesGroup(companies[n], filterGroups[g])}

\* the orders in which a set of identifiers can be listed
Orders(S) ==
  {s \in [1..Cardinality(S) -> S] : \A j, k \in 1..Cardinality(S) : s[j] = s[k] => j = k}

\* the possible answers of doSearch: one page of at most `limit` results,
\* each with the record's id as a string
SearchAnswers(filterGroups, limit) ==
  {[k \in 1..(IF Len(s) < limit THEN Len(s) ELSE limit) |-> [id |-> JSString(s[k])]] :
     s \in Orders(Matching(filterGroups))}

\* basicApi.update(companyId, {properties: {deduplication_status: value}})
StoreUpdate(companyId, value) ==
  [companies EXCEPT ![Number(companyId)][DEDUPLICATION_STATUS_PROPERTY] = value]

\* POST /crm/v3/objects/companies/merge: the merged record leaves the store
StoreMerge(primaryId, mergeId) ==
  [n \in DOMAIN companies \ {Number(mergeId)} |-> companies[n]]

----------------------------------------------------------------------------
(* exports.main *)

\* Step 3: the search criteria built from the fetched properties
\* variant: a secondary property is used whether it has a value or not
SecondaryFilters_Unfiltered(properties) ==
  [k \in 1..Len(SECONDARY_PROPERTIES) |->
     [propertyName |-> SECONDARY_PROPERTIES[k], operator |-> "EQ",
      value |-> properties[SECONDARY_PROPERTIES[k]]]]

\* for (const prop of SECONDARY_PROPERTIES) { if (propValue) secondaryFilters.push(...) }
SecondaryFilters(properties) ==
  LET present == SelectSeq(SECONDARY_PROPERTIES, LAMBDA prop : properties[prop] # NoValue)
  IN  [k \in 1..Len(present) |->
         [propertyName |-> present[k], operator |-> "EQ", value |-> properties[present[k]]]]

\* variant: the criteria are built without testing dedupePropValue
BuildFilterGroups_Unguarded(properties) ==
  LET nameFilter == [propertyName |-> DEDUPE_PROPERTY, operator |-> "EQ",
                     value |-> properties[DEDUPE_PROPERTY]]
      secondaryFilters == SecondaryFilters(properties)
  IN  IF Len(secondaryFilters) > 0
      THEN [k \in 1..Len(secondaryFilters) |->
              [filters |-> <<nameFilter, secondaryFilters[k]>>]]
      ELSE <<[filters |-> <<nameFilter>>]>>

BuildFilterGroups(properties) ==
  LET dedupePropValue == properties[DEDUPE_PROPERTY]
      nameFilter == [propertyName |-> DEDUPE_PROPERTY, operator |-> "EQ",
                     value |-> dedupePropValue]
      secondaryFilters == SecondaryFilters(properties)
  IN  IF dedupePropValue = NoValue THEN <<>>
      ELSE IF Len(secondaryFilters) > 0
           THEN [k \in 1..Len(secondaryFilters) |->
                   [filters |-> <<nameFilter, secondaryFilters[k]>>]]
           ELSE <<[filters |-> <<nameFilter>>]>>

\* variant: the current record is not removed from the result
MatchingIds_KeepSelf(results, objectId) ==
  [k \in 1..Len(results) |-> results[k].id]

\* searchResults.results.map(object => object.id)
\*   .filter(id => Number(id) !== Number(event.object.objectId))
MatchingIds(results, objectId) ==
  SelectSeq([k \in 1..Len(results) |-> results[k].id],
            LAMBDA id : Number(id) # Number(objectId))

UniqueIds(results, objectId) == SetOrder(MatchingIds(results, objectId))

\* [...uniqueIds, event.object.objectId] sorted numerically
AllCompanyIds(uniqueIds, objectId) == SortNumeric(Append(uniqueIds, objectId))

PrimaryId(uniqueIds, objectId) == AllCompanyIds(uniqueIds, objectId)[1]

\* a === b
StrictEquals(a, b) == a.typ = b.typ /\ a.dig = b.dig

\* variant: the last candidate is taken
DuplicateToMerge_Last(uniqueIds) == uniqueIds[Len(uniqueIds)]

\* uniqueIds[0]
DuplicateToMerge(uniqueIds) == uniqueIds[1]

\* variant: the gate tests for the wrong status
IsMerged_Primary(deduplicationStatus) == deduplicationStatus = "primary"

\* variant: a 'primary' record is skipped as well
IsMerged_OrPrimary(deduplicationStatus) ==
  deduplicationStatus \in {"merged", "primary"}

\* if (deduplicationStatus === 'merged')
IsMerged(deduplicationStatus) == deduplicationStatus = "merged"

\* variant: the absorbed duplicate is still counted
RemainingDuplicates_All(uniqueIds) == Len(uniqueIds)

\* uniqueIds.length - 1
RemainingDuplicates(uniqueIds) == Len(uniqueIds) - 1

(* the remote calls *)
GetByIdCall(companyId) == [api |-> "getById", companyId |-> companyId]

DoSearchCall(filterGroups) ==
  [api |-> "doSearch", filterGroups |-> filterGroups, limit |-> SearchLimit]

UpdateCall(companyId, value) ==
  [api |-> "update", companyId |-> companyId, deduplication_status |-> value]

MergeCall(primaryId, mergeId) ==
  [api |-> "merge", primaryObjectId |-> primaryId, objectIdToMerge |-> mergeId]

(* the payloads handed to callback *)
AlreadyMergedOutput(objectId) ==
  [outputFields |-> [result |-> "Already merged into another company",
                     companyId |-> objectId]]

MarkedAsPrimaryOutput(companyId) ==
  [outputFields |-> [result |-> "Marked as primary", primaryCompanyId |-> companyId]]

\* variant: the absorbed duplicate reported as the primary company
MergedDuplicateOutput_Duplicate(objectId, duplicateToMerge, uniqueIds) ==
  [outputFields |-> [result |-> "Successfully merged duplicate into this company",
                     primaryCompanyId |-> duplicateToMerge,
                     mergedCompanyId |-> objectId,
                     remainingDuplicates |-> RemainingDuplicates(uniqueIds)]]

MergedDuplicateOutput(objectId, duplicateToMerge, uniqueIds) ==
  [outputFields |-> [result |-> "Successfully merged duplicate into this company",
                     primaryCompanyId |-> objectId,
                     mergedCompanyId |-> duplicateToMerge,
                     remainingDuplicates |-> RemainingDuplicates(uniqueIds)]]

\* variant: the two identifiers of the payload exchanged
MergedIntoPrimaryOutput_Swapped(primaryId, objectId) ==
  [outputFields |-> [result |-> "Successfully merged into primary company",
                     primaryCompanyId |-> objectId,
                     mergedCompanyId |-> primaryId]]

MergedIntoPrimaryOutput(primaryId, objectId) ==
  [outputFields |-> [result |-> "Successfully merged into primary company",
                     primaryCompanyId |-> primaryId,
                     mergedCompanyId |-> objectId]]

NoProperties == [p \in PropertyNames |-> NoValue]

\* variant: the current record is always the one merged away
MergeRequest_Swapped(e) ==
  IF StrictEquals(e.primaryId, e.objectId)
  THEN MergeCall(e.duplicateToMerge, e.objectId)
  ELSE MergeCall(e.primaryId, e.objectId)

\* the merge request of the branch the invocation is in
MergeRequest(e) ==
  IF StrictEquals(e.primaryId, e.objectId)
  THEN MergeCall(e.objectId, e.duplicateToMerge)
  ELSE MergeCall(e.primaryId, e.objectId)

\* variant: the absorbed duplicate is marked instead of the current record
PrimaryMarkRequest_Duplicate(e) ==
  IF StrictEquals(e.primaryId, e.objectId)
  THEN UpdateCall(e.duplicateToMerge, "primary")
  ELSE UpdateCall(e.primaryId, "primary")

\* the status mark that follows the merge in that branch
PrimaryMarkRequest(e) ==
  IF StrictEquals(e.primaryId, e.objectId)
  THEN UpdateCall(e.objectId, "primary")
  ELSE UpdateCall(e.primaryId, "primary")

\* An invocation: its event, the promise it is waiting on (pc), what it
\* fetched, the numeric ids the search answered with (found) and the length
\* of that answer (returned), the locals of
\* the search handler, the remote calls it issued with their outcomes, and
\* the payloads it handed to callback.
\* the call an invocation is waiting for
Outstanding(e) == e.calls[Len(e.calls)]

\* an invocation for record n that has just issued its getById
Invocation(n) ==
  [objectId |-> JSNumber(n),
   pc |-> "getById",
   companyResult |-> [properties |-> NoProperties],
   found |-> {},
   returned |-> 0,
   uniqueIds |-> <<>>,
   primaryId |-> Undefined,
   duplicateToMerge |-> Undefined,
   calls |-> <<GetByIdCall(JSNumber(n))>>,
   replies |-> <<>>,
   outputs |-> <<>>]

\* the workflow calls exports.main(event, callback) for record n (a number
\* in event.object.objectId): Step 1 issues getById.  Invocations are
\* numbered by ascending record id; the numbering means nothing to the
\* script and a call of main has no effect before its getById is answered.
Main(n) ==
  /\ Len(inv) < MaxInvocations
  /\ Len(inv) > 0 => Number(inv[Len(inv)].objectId) <= n
  /\ inv' = Append(inv, Invocation(n))
  /\ UNCHANGED companies

\* getById(...).then(companyResult => ...): status gate, search criteria,
\* then the search or the early exit through markAsPrimary
GetByIdThen(i) ==
  LET e == inv[i]
      n == Number(e.objectId)
  IN  /\ e.pc = "getById"
      /\ n \in DOMAIN companies
      /\ LET companyResult == [properties |-> companies[n]]
             deduplicationStatus == companyResult.properties[DEDUPLICATION_STATUS_PROPERTY]
             filterGroups == BuildFilterGroups(companyResult.properties)
             got == [e EXCEPT !.companyResult = companyResult,
                              !.replies = Append(@, "ok")]
         IN  inv' = [inv EXCEPT ![i] =
               IF IsMerged(deduplicationStatus)
               THEN [got EXCEPT !.pc = "done",
                                !.outputs = Append(@, AlreadyMergedOutput(e.objectId))]
               ELSE IF Len(filterGroups) = 0
               THEN [got EXCEPT !.pc = "markAsPrimaryCallback",
                                !.calls = Append(@, UpdateCall(e.objectId, "primary"))]
               ELSE [got EXCEPT !.pc = "doSearch",
                                !.calls = Append(@, DoSearchCall(filterGroups))]]
      /\ UNCHANGED companies

\* getById rejects: .catch(error => { console.error(...); throw error; })
GetByIdCatch(i) ==
  /\ inv[i].pc = "getById"
  /\ inv' = [inv EXCEPT ![i].pc = "rejected", ![i].replies = Append(@, "error")]
  /\ UNCHANGED companies

\* searchResults => ...: Steps 5 to 7 up to the first status mark, for the
\* answer `results`
SearchHandler(i, results) ==
           LET e == inv[i]
               uniqueIds == UniqueIds(results, e.objectId)
               primaryId == PrimaryId(uniqueIds, e.objectId)
               got == [e EXCEPT !.found = {Number(results[k].id) : k \in 1..Len(results)},
                                !.returned = Len(results),
                                !.uniqueIds = uniqueIds,
                                !.replies = Append(@, "ok")]
           IN  inv' = [inv EXCEPT ![i] =
                 IF Len(uniqueIds) = 0
                 THEN [got EXCEPT !.pc = "markAsPrimaryCallback",
                                  !.calls = Append(@, UpdateCall(e.objectId, "primary"))]
                 ELSE IF StrictEquals(primaryId, e.objectId)
                 THEN IF Len(uniqueIds) > 0
                      THEN [got EXCEPT !.pc = "markAsMerged",
                                       !.primaryId = primaryId,
                                       !.duplicateToMerge = DuplicateToMerge(uniqueIds),
                                       !.calls = Append(@,
                                          UpdateCall(DuplicateToMerge(uniqueIds), "merged"))]
                      ELSE [got EXCEPT !.pc = "markAsPrimaryCallback",
                                       !.primaryId = primaryId,
                                       !.calls = Append(@, UpdateCall(e.objectId, "primary"))]
                 ELSE [got EXCEPT !.pc = "markAsMerged",
                                  !.primaryId = primaryId,
                                  !.calls = Append(@, UpdateCall(e.objectId, "merged"))]]

\* doSearch(...).then(searchResults => ...) on an answer of the store
DoSearchThen(i) ==
  LET e == inv[i]
  IN  /\ e.pc = "doSearch"
      /\ \E results \in SearchAnswers(Outstanding(e).filterGroups, Outstanding(e).limit) :
           SearchHandler(i, results)
      /\ UNCHANGED companies

\* doSearch rejects: .catch(error => { console.error(...); throw error; })
DoSearchCatch(i) ==
  /\ inv[i].pc = "doSearch"
  /\ inv' = [inv EXCEPT ![i].pc = "rejected", ![i].replies = Append(@, "error")]
  /\ UNCHANGED companies

\* markAsPrimary(hubspotClient, objectId, callback): the update succeeds and
\* its .then reports 'Marked as primary'
MarkAsPrimaryCallbackThen(i) ==
  LET e == inv[i]
      companyId == Outstanding(e).companyId
  IN  /\ e.pc = "markAsPrimaryCallback"
      /\ Number(companyId) \in DOMAIN companies
      /\ companies' = StoreUpdate(companyId, "primary")
      /\ inv' = [inv EXCEPT ![i].pc = "done",
                            ![i].replies = Append(@, "ok"),
                            ![i].outputs = Append(@, MarkedAsPrimaryOutput(companyId))]

\* the same update rejects; no handler is attached to the returned promise
MarkAsPrimaryCallbackRejected(i) ==
  /\ inv[i].pc = "markAsPrimaryCallback"
  /\ inv' = [inv EXCEPT ![i].pc = "rejected", ![i].replies = Append(@, "error")]
  /\ UNCHANGED companies

\* variant: the merge request is issued without being returned to the
\* chain, the status mark of the primary is issued with it
MarkAsMergedThen_NotAwaited(i) ==
  LET e == inv[i]
      companyId == Outstanding(e).companyId
  IN  /\ e.pc = "markAsMerged"
      /\ Number(companyId) \in DOMAIN companies
      /\ companies' = StoreUpdate(companyId, "merged")
      /\ inv' = [inv EXCEPT ![i].pc = "markAsPrimary",
                            ![i].replies = Append(@, "ok"),
                            ![i].calls = @ \o <<MergeRequest(e), PrimaryMarkRequest(e)>>]

\* markAsMerged(...).then(() => mergeCompanies(...)): the record to absorb
\* is marked, the merge request is issued
MarkAsMergedThen(i) ==
  LET e == inv[i]
      companyId == Outstanding(e).companyId
  IN  /\ e.pc = "markAsMerged"
      /\ Number(companyId) \in DOMAIN companies
      /\ companies' = StoreUpdate(companyId, "merged")
      /\ inv' = [inv EXCEPT ![i].pc = "mergeCompanies",
                            ![i].replies = Append(@, "ok"),
                            ![i].calls = Append(@, MergeRequest(e))]

\* mergeCompanies(...).then(() => markAsPrimary(...)): the merge is done,
\* the status mark of the primary is issued
MergeCompaniesThen(i) ==
  LET e == inv[i]
      call == Outstanding(e)
  IN  /\ e.pc = "mergeCompanies"
      /\ Number(call.primaryObjectId) \in DOMAIN companies
      /\ Number(call.objectIdToMerge) \in DOMAIN companies
      /\ Number(call.primaryObjectId) # Number(call.objectIdToMerge)
      /\ companies' = StoreMerge(call.primaryObjectId, call.objectIdToMerge)
      /\ inv' = [inv EXCEPT ![i].pc = "markAsPrimary",
                            ![i].replies = Append(@, "ok"),
                            ![i].calls = Append(@, PrimaryMarkRequest(e))]

\* markAsPrimary(...).then(() => callback(...)): the primary is marked and
\* the success payload of the branch is reported
\* variant: the status mark that ends a merge is given the callback too
MarkAsPrimaryThen_WithCallback(i) ==
  LET e == inv[i]
      companyId == Outstanding(e).companyId
  IN  /\ e.pc = "markAsPrimary"
      /\ Number(companyId) \in DOMAIN companies
      /\ companies' = StoreUpdate(companyId, "primary")
      /\ inv' = [inv EXCEPT ![i].pc = "done",
                            ![i].replies = Append(@, "ok"),
                            ![i].outputs = @ \o
                               << MarkedAsPrimaryOutput(companyId),
                                  IF StrictEquals(e.primaryId, e.objectId)
                                  THEN MergedDuplicateOutput(e.objectId, e.duplicateToMerge,
                                                             e.uniqueIds)
                                  ELSE MergedIntoPrimaryOutput(e.primaryId, e.objectId) >>]

MarkAsPrimaryThen(i) ==
  LET e == inv[i]
      companyId == Outstanding(e).companyId
  IN  /\ e.pc = "markAsPrimary"
      /\ Number(companyId) \in DOMAIN companies
      /\ companies' = StoreUpdate(companyId, "primary")
      /\ inv' = [inv EXCEPT ![i].pc = "done",
                            ![i].replies = Append(@, "ok"),
                            ![i].outputs = Append(@,
                               IF StrictEquals(e.primaryId, e.objectId)
                               THEN MergedDuplicateOutput(e.objectId, e.duplicateToMerge,
                                                          e.uniqueIds)
                               ELSE MergedIntoPrimaryOutput(e.primaryId, e.objectId))]

\* variant: a rejected merge request is logged and the chain goes on
MergeProcessCatch_Continue(i) ==
  /\ inv[i].pc \in {"markAsMerged", "mergeCompanies", "markAsPrimary"}
  /\ inv' = [inv EXCEPT ![i] =
        IF @.pc = "mergeCompanies"
        THEN [@ EXCEPT !.pc = "markAsPrimary",
                       !.replies = Append(@, "error"),
                       !.calls = Append(@, PrimaryMarkRequest(inv[i]))]
        ELSE [@ EXCEPT !.pc = "rejected", !.replies = Append(@, "error")]]
  /\ UNCHANGED companies

\* a step of the mark / merge / mark chain rejects:
\* .catch(error => { console.error(...); throw error; })
MergeProcessCatch(i) ==
  /\ inv[i].pc \in {"markAsMerged", "mergeCompanies", "markAsPrimary"}
  /\ inv' = [inv EXCEPT ![i].pc = "rejected", ![i].replies = Append(@, "error")]
  /\ UNCHANGED companies

----------------------------------------------------------------------------

Init ==
  /\ companies \in InitialStores
  /\ inv = <<>>

Next ==
  \/ \E n \in Ids : Main(n)
  \/ \E i \in 1..Len(inv) : GetByIdThen(i)
  \/ \E i \in 1..Len(inv) : GetByIdCatch(i)
  \/ \E i \in 1..Len(inv) : DoSearchThen(i)
  \/ \E i \in 1..Len(inv) : DoSearchCatch(i)
  \/ \E i \in 1..Len(inv) : MarkAsPrimaryCallbackThen(i)
  \/ \E i \in 1..Len(inv) : MarkAsPrimaryCallbackRejected(i)
  \/ \E i \in 1..Len(inv) : MarkAsMergedThen(i)
  \/ \E i \in 1..Len(inv) : MergeCompaniesThen(i)
  \/ \E i \in 1..Len(inv) : MarkAsPrimaryThen(i)
  \/ \E i \in 1..Len(inv) : MergeProcessCatch(i)

Spec == Init /\ [][Next]_vars

----------------------------------------------------------------------------
(* The duplicate resolver on arbitrary search answers: one invocation, and *)
(* a doSearch that may answer any list of record ids (as strings), in any  *)
(* order, with repetitions, with or without the current record.            *)

AnyAnswers ==
  UNION {[1..k -> {[id |-> JSString(n)] : n \in Ids}] : k \in 0..MaxResults}

MainSingle(n) == Len(inv) = 0 /\ Main(n)

DoSearchThenAny(i) ==
  /\ inv[i].pc = "doSearch"
  /\ \E results \in AnyAnswers : SearchHandler(i, results)
  /\ UNCHANGED companies

InitResolver == Init

NextResolver ==
  \/ \E n \in Ids : MainSingle(n)
  \/ \E i \in 1..Len(inv) : GetByIdThen(i)
  \/ \E i \in 1..Len(inv) : DoSearchThenAny(i)

SpecResolver == InitResolver /\ [][NextResolver]_vars

----------------------------------------------------------------------------
(* The search criteria: one invocation of exports.main on a store whose    *)
(* oldest record has any combination of present and absent name and        *)
(* secondary properties, beside a record with all of them and a record     *)
(* with two secondary properties.                                          *)

Complete ==
  [name |-> "Acme", domain |-> "acme.com", linkedin_company_page |-> "li/acme",
   sales_navigator_url |-> "sn/acme", deduplication_status |-> NoValue]

QueryProperties ==
  [name : {NoValue, "Acme"},
   domain : {NoValue, "acme.com", "acme.org"},
   linkedin_company_page : {NoValue, "li/acme"},
   sales_navigator_url : {NoValue, "sn/acme"},
   deduplication_status : {NoValue}]

QueryStores ==
  {(2 :> p @@ 9 :> Complete @@ 10 :> Identified) : p \in QueryProperties}

InitQuery == companies \in QueryStores /\ inv = <<>>

NextQuery ==
  \/ \E n \in Ids : MainSingle(n)
  \/ \E i \in 1..Len(inv) : GetByIdThen(i)
  \/ \E i \in 1..Len(inv) : DoSearchThen(i)

SpecQuery == InitQuery /\ [][NextQuery]_vars

----------------------------------------------------------------------------
(* Re-triggering: exports.main is called again and again for the same      *)
(* record, each call after the previous invocation has ended, and every    *)
(* remote call succeeds.                                                   *)

Ended(e) == e.pc \in {"done", "rejected"}

Retrigger(n) ==
  /\ Len(inv) < MaxRetriggers
  /\ \A i \in 1..Len(inv) : Ended(inv[i])
  /\ Len(inv) > 0 => n = Number(inv[1].objectId)
  /\ inv' = Append(inv, Invocation(n))
  /\ UNCHANGED companies

InitRetrigger == Init

NextRetrigger ==
  \/ \E n \in Ids : Retrigger(n)
  \/ \E i \in 1..Len(inv) : GetByIdThen(i)
  \/ \E i \in 1..Len(inv) : DoSearchThen(i)
  \/ \E i \in 1..Len(inv) : MarkAsPrimaryCallbackThen(i)
  \/ \E i \in 1..Len(inv) : MarkAsMergedThen(i)
  \/ \E i \in 1..Len(inv) : MergeCompaniesThen(i)
  \/ \E i \in 1..Len(inv) : MarkAsPrimaryThen(i)

SpecRetrigger == InitRetrigger /\ [][NextRetrigger]_vars

----------------------------------------------------------------------------
(* Invocations one after the other: exports.main is called for a record    *)
(* once every earlier invocation has ended; remote calls may fail. The     *)
(* store holds a record with a name alone, older than two records with     *)
(* the same name and two secondary properties: the search of the oldest    *)
(* record finds the two others by name, their searches do not find it.     *)

OlderNameOnly == (2 :> NameOnly @@ 9 :> Identified @@ 10 :> Identified)

MainSequential(n) ==
  /\ \A i \in 1..Len(inv) : Ended(inv[i])
  /\ Main(n)

InitSequential == companies = OlderNameOnly /\ inv = <<>>

NextSequential ==
  \/ \E n \in Ids : MainSequential(n)
  \/ \E i \in 1..Len(inv) : GetByIdThen(i)
  \/ \E i \in 1..Len(inv) : GetByIdCatch(i)
  \/ \E i \in 1..Len(inv) : DoSearchThen(i)
  \/ \E i \in 1..Len(inv) : DoSearchCatch(i)
  \/ \E i \in 1..Len(inv) : MarkAsPrimaryCallbackThen(i)
  \/ \E i \in 1..Len(inv) : MarkAsPrimaryCallbackRejected(i)
  \/ \E i \in 1..Len(inv) : MarkAsMergedThen(i)
  \/ \E i \in 1..Len(inv) : MergeCompaniesThen(i)
  \/ \E i \in 1..Len(inv) : MarkAsPrimaryThen(i)
  \/ \E i \in 1..Len(inv) : MergeProcessCatch(i)

SpecSequential == InitSequential /\ [][NextSequential]_vars

----------------------------------------------------------------------------
(* Vocabulary of the properties *)

Invocations == 1..Len(inv)

Min(S) == CHOOSE x \in S : \A y \in S : x <= y

\* the getById of the invocation was answered with the record
Fetched(e) == Len(e.replies) >= 1 /\ e.replies[1] = "ok"

FetchedStatus(e) == e.companyResult.properties[DEDUPLICATION_STATUS_PROPERTY]

\* the doSearch of the invocation was answered
Searched(e) ==
  Len(e.replies) >= 2 /\ e.replies[2] = "ok" /\ e.calls[2].api = "doSearch"

CurrentId(e) == Number(e.objectId)

\* the search result without the current record
CandidateSet(e) == e.found \ {CurrentId(e)}

Canonical(e) == Min(CandidateSet(e) \cup {CurrentId(e)})

IsUpdate(c, n, value) ==
  c.api = "update" /\ Number(c.companyId) = n /\ c.deduplication_status = value

IsMerge(c, p, m) ==
  c.api = "merge" /\ Number(c.primaryObjectId) = p /\ Number(c.objectIdToMerge) = m

\* the mutation requests of an invocation, in the order issued
Mutations(e) == SelectSeq(e.calls, LAMBDA c : c.api \in {"update", "merge"})

AllOk(e) == \A k \in 1..Len(e.replies) : e.replies[k] = "ok"

InBranchA(e) ==
  Searched(e) /\ CandidateSet(e) # {} /\ Canonical(e) = CurrentId(e)

InBranchB(e) ==
  Searched(e) /\ CandidateSet(e) # {} /\ Canonical(e) # CurrentId(e)

----------------------------------------------------------------------------
(* C1: an invocation that fetched the status 'merged' reports "already      *)
(* merged" with its own record id, has issued no call but the fetch, and   *)
(* the step that answers its fetch changes no record of the store.         *)
C1_Holds(e) ==
  (Fetched(e) /\ FetchedStatus(e) = "merged") =>
     /\ e.pc = "done"
     /\ e.calls = <<GetByIdCall(e.objectId)>>
     /\ Len(e.outputs) = 1
     /\ e.outputs[1].outputFields.result = "Already merged into another company"
     /\ e.outputs[1].outputFields.companyId = e.objectId

C1_StatusGate ==
  [][\A i \in 1..Len(inv') :
       /\ C1_Holds(inv'[i])
       /\ (/\ i <= Len(inv)
           /\ inv[i] # inv'[i]
           /\ FetchedStatus(inv'[i]) = "merged") => companies' = companies]_vars

C1_Witness ==
  \E i \in Invocations :
     /\ Fetched(inv[i])
     /\ FetchedStatus(inv[i]) = "merged"
     /\ Len(inv[i].outputs) = 1
     /\ CurrentId(inv[i]) \in DOMAIN companies

(* C2: when the candidate set is not empty, primaryId is numerically the    *)
(* smallest of the candidates and the current record, whatever the order   *)
(* of the search result.                                                   *)
C2_CanonicalSelection ==
  \A i \in Invocations :
     (Searched(inv[i]) /\ CandidateSet(inv[i]) # {}) =>
        Number(inv[i].primaryId) = Canonical(inv[i])

C2_Witness ==
  \E i \in Invocations :
     /\ CurrentId(inv[i]) = 10
     /\ inv[i].uniqueIds = <<JSString(9), JSString(2)>>
     /\ inv[i].primaryId = JSString(2)

(* C3: in every merge request the primary is numerically lower than the    *)
(* record merged away, and is the lowest of the current record and its     *)
(* candidates.                                                             *)
C3_MergeDirection ==
  \A i \in Invocations : \A k \in 1..Len(inv[i].calls) :
     inv[i].calls[k].api = "merge" =>
        /\ Number(inv[i].calls[k].primaryObjectId) < Number(inv[i].calls[k].objectIdToMerge)
        /\ Number(inv[i].calls[k].primaryObjectId) = Canonical(inv[i])

C3_Witness ==
  \E i, j \in Invocations :
     /\ InBranchA(inv[i]) /\ Len(Mutations(inv[i])) >= 2
     /\ InBranchB(inv[j]) /\ Len(Mutations(inv[j])) >= 2

(* C4: an invocation whose canonical record is another record issues       *)
(* update(current, merged), merge(canonical, current), update(canonical,   *)
(* primary) in this order, each after the previous call succeeded, and     *)
(* when all succeeded reports the merge into the primary with both ids.    *)
C4_Holds(e) ==
  LET m == Mutations(e)
      cur == CurrentId(e)
      prim == Canonical(e)
  IN  InBranchB(e) =>
        /\ Len(m) >= 1 /\ Len(m) <= 3
        /\ IsUpdate(m[1], cur, "merged")
        /\ Len(m) >= 2 => (IsMerge(m[2], prim, cur) /\ e.replies[3] = "ok")
        /\ Len(m) >= 3 => (IsUpdate(m[3], prim, "primary") /\ e.replies[4] = "ok")
        /\ Len(e.outputs) > 0 => (AllOk(e) /\ Len(e.replies) = 5)
        /\ (AllOk(e) /\ Len(e.replies) = 5) =>
              /\ e.pc = "done"
              /\ Len(m) = 3
              /\ Len(e.outputs) = 1
              /\ e.outputs[1].outputFields.result = "Successfully merged into primary company"
              /\ Number(e.outputs[1].outputFields.primaryCompanyId) = prim
              /\ Number(e.outputs[1].outputFields.mergedCompanyId) = cur

C4_BranchBOrdering == \A i \in Invocations : C4_Holds(inv[i])

C4_Witness ==
  \E i \in Invocations :
     /\ InBranchB(inv[i])
     /\ inv[i].pc = "done"
     /\ CurrentId(inv[i]) = 10
     /\ Number(inv[i].outputs[1].outputFields.primaryCompanyId) = 9

(* C5: an invocation whose current record is canonical and has duplicates  *)
(* issues update(d, merged), merge(current, d), update(current, primary)   *)
(* for one duplicate d, in this order, each after the previous call        *)
(* succeeded, and skips none when all succeed.                             *)
C5_Holds(e) ==
  LET m == Mutations(e)
      cur == CurrentId(e)
  IN  InBranchA(e) =>
        \E d \in CandidateSet(e) :
           /\ Len(m) >= 1 /\ Len(m) <= 3
           /\ IsUpdate(m[1], d, "merged")
           /\ Len(m) >= 2 => (IsMerge(m[2], cur, d) /\ e.replies[3] = "ok")
           /\ Len(m) >= 3 => (IsUpdate(m[3], cur, "primary") /\ e.replies[4] = "ok")
           /\ Len(e.outputs) > 0 => (AllOk(e) /\ Len(e.replies) = 5)
           /\ (AllOk(e) /\ Len(e.replies) = 5) =>
                 (e.pc = "done" /\ Len(m) = 3 /\ Len(e.outputs) = 1)

C5_BranchAOrdering == \A i \in Invocations : C5_Holds(inv[i])

C5_Witness ==
  \E i \in Invocations :
     /\ InBranchA(inv[i])
     /\ inv[i].pc = "done"
     /\ Cardinality(CandidateSet(inv[i])) = 2
     /\ Len(Mutations(inv[i])) = 3

(* C6: an invocation issues at most one merge request; when the current    *)
(* record is canonical with n >= 1 candidates and the invocation reports   *)
(* its merge, exactly one candidate was merged and remainingDuplicates is  *)
(* n - 1.                                                                  *)
MergeRequests(e) == SelectSeq(e.calls, LAMBDA c : c.api = "merge")

C6_Holds(e) ==
  /\ Len(MergeRequests(e)) <= 1
  /\ (InBranchA(e) /\ Len(e.outputs) > 0) =>
        /\ Len(MergeRequests(e)) = 1
        /\ e.replies[4] = "ok"
        /\ Number(MergeRequests(e)[1].objectIdToMerge) \in CandidateSet(e)
        /\ Len(e.outputs) = 1
        /\ e.outputs[1].outputFields.mergedCompanyId = MergeRequests(e)[1].objectIdToMerge
        /\ e.outputs[1].outputFields.remainingDuplicates = Cardinality(CandidateSet(e)) - 1

C6_SingleAbsorption == \A i \in Invocations : C6_Holds(inv[i])

C6_Witness ==
  \E i \in Invocations :
     /\ InBranchA(inv[i])
     /\ Cardinality(CandidateSet(inv[i])) = 2
     /\ Len(inv[i].outputs) = 1
     /\ inv[i].outputs[1].outputFields.remainingDuplicates = 1

(* C7: when the search result without the current record is empty, the     *)
(* only mutation requested is update(current, primary): no merge and no    *)
(* 'merged' mark; the step in which that update succeeds leaves the        *)
(* current record with status 'primary' and reports "marked as primary"    *)
(* with primaryCompanyId the current record.                               *)
NoDuplicates(e) == Searched(e) /\ CandidateSet(e) = {}

C7_Holds(e) ==
  NoDuplicates(e) =>
     /\ Len(Mutations(e)) = 1
     /\ IsUpdate(Mutations(e)[1], CurrentId(e), "primary")
     /\ Len(e.outputs) > 0 => (Len(e.replies) = 3 /\ e.replies[3] = "ok")
     /\ (Len(e.replies) = 3 /\ e.replies[3] = "ok") =>
           /\ e.pc = "done"
           /\ Len(e.outputs) = 1
           /\ e.outputs[1].outputFields.result = "Marked as primary"
           /\ e.outputs[1].outputFields.primaryCompanyId = e.objectId

C7_NoDuplicatesPath ==
  [][\A i \in 1..Len(inv') :
       /\ C7_Holds(inv'[i])
       /\ (/\ i <= Len(inv)
           /\ NoDuplicates(inv[i])
           /\ inv[i].pc # "done"
           /\ inv'[i].pc = "done") =>
             /\ CurrentId(inv[i]) \in DOMAIN companies'
             /\ companies'[CurrentId(inv[i])][DEDUPLICATION_STATUS_PROPERTY] = "primary"]_vars

C7_Witness ==
  \E i \in Invocations :
     /\ NoDuplicates(inv[i])
     /\ CurrentId(inv[i]) \in inv[i].found
     /\ inv[i].pc = "done"
     /\ companies[CurrentId(inv[i])][DEDUPLICATION_STATUS_PROPERTY] = "primary"

(* C8: an invocation that fetched a record without identifying value (and  *)
(* a status other than 'merged') issues no search and no merge: its only   *)
(* call after the fetch is update(current, primary); it reports no error   *)
(* and, when that update succeeds, reports "marked as primary".            *)
NoIdentifyingValue(e) ==
  /\ Fetched(e)
  /\ FetchedStatus(e) # "merged"
  /\ e.companyResult.properties[DEDUPE_PROPERTY] = NoValue

C8_Holds(e) ==
  NoIdentifyingValue(e) =>
     /\ Len(e.calls) = 2
     /\ IsUpdate(e.calls[2], CurrentId(e), "primary")
     /\ \A k \in 1..Len(e.outputs) :
           /\ "error" \notin DOMAIN e.outputs[k].outputFields
           /\ e.outputs[k].outputFields.result = "Marked as primary"
           /\ e.outputs[k].outputFields.primaryCompanyId = e.objectId
     /\ (Len(e.replies) = 2 /\ e.replies[2] = "ok") =>
           (e.pc = "done" /\ Len(e.outputs) = 1)

C8_NoIdentifyingValue == \A i \in Invocations : C8_Holds(inv[i])

C8_Witness ==
  \E i \in Invocations :
     /\ NoIdentifyingValue(inv[i])
     /\ inv[i].pc = "done"
     /\ Len(inv[i].outputs) = 1
     /\ companies[CurrentId(inv[i])][DEDUPLICATION_STATUS_PROPERTY] = "primary"

(* C9: whenever a remote call of an invocation failed, the invocation has  *)
(* handed callback a payload with an error field.                          *)
CallFailed(e) == \E k \in 1..Len(e.replies) : e.replies[k] = "error"

C9_ErrorReported ==
  \A i \in Invocations :
     CallFailed(inv[i]) =>
        /\ Len(inv[i].outputs) >= 1
        /\ "error" \in DOMAIN inv[i].outputs[Len(inv[i].outputs)].outputFields

(* C10: a failed call is the last call of its invocation: nothing is       *)
(* issued after it, no call is repeated, no success is reported, and the   *)
(* step in which the call fails changes no record, so a status mark        *)
(* applied before stays.                                                   *)
C10_Holds(e) ==
  /\ \A k \in 1..Len(e.replies) :
        e.replies[k] = "error" =>
           /\ k = Len(e.replies)
           /\ Len(e.calls) = k
           /\ e.outputs = <<>>
           /\ e.pc = "rejected"
  /\ \A j, k \in 1..Len(e.calls) :
        (e.calls[j].api = e.calls[k].api /\ e.calls[j] = e.calls[k]) => j = k

C10_AbortOnFailure ==
  [][\A i \in 1..Len(inv') :
       /\ C10_Holds(inv'[i])
       /\ (/\ i <= Len(inv)
           /\ ~CallFailed(inv[i])
           /\ CallFailed(inv'[i])) => companies' = companies]_vars

C10_Witness ==
  \E i \in Invocations :
     /\ inv[i].replies = <<"ok", "ok", "ok", "error">>
     /\ inv[i].calls[4].api = "merge"
     /\ Len(inv[i].calls) = 4
     /\ Number(inv[i].calls[3].companyId) \in DOMAIN companies
     /\ companies[Number(inv[i].calls[3].companyId)][DEDUPLICATION_STATUS_PROPERTY] = "merged"

(* C11: an invocation that fetched a status other than 'merged' (and a     *)
(* name) goes on to the search, also when the status is 'primary'; when    *)
(* an older record matches, its first mutation marks the current record    *)
(* 'merged', its merge request merges the current record into the oldest   *)
(* one, and once that merge succeeded the current record has left the      *)
(* store.                                                                  *)
C11_Holds(e) ==
  (/\ Fetched(e)
   /\ FetchedStatus(e) # "merged"
   /\ e.companyResult.properties[DEDUPE_PROPERTY] # NoValue) =>
     /\ Len(e.calls) >= 2
     /\ e.calls[2].api = "doSearch"
     /\ InBranchB(e) =>
           /\ IsUpdate(e.calls[3], CurrentId(e), "merged")
           /\ Len(e.calls) >= 4 => IsMerge(e.calls[4], Canonical(e), CurrentId(e))
           /\ (Len(e.replies) >= 4 /\ e.replies[4] = "ok") =>
                 CurrentId(e) \notin DOMAIN companies

C11_PrimaryNotFinal == \A i \in Invocations : C11_Holds(inv[i])

C11_Witness ==
  \E i \in Invocations :
     /\ Fetched(inv[i])
     /\ FetchedStatus(inv[i]) = "primary"
     /\ InBranchB(inv[i])
     /\ Len(inv[i].replies) >= 4
     /\ inv[i].replies[4] = "ok"
     /\ CurrentId(inv[i]) \notin DOMAIN companies

(* C12: whatever list the search answers, uniqueIds holds no id            *)
(* numerically equal to the current record's id (a number, the answer's    *)
(* ids being strings), holds no id twice, and holds exactly the other ids  *)
(* of the answer.                                                          *)
C12_Holds(e) ==
  Searched(e) =>
     /\ \A k \in 1..Len(e.uniqueIds) :
           /\ e.uniqueIds[k].typ = "string"
           /\ e.objectId.typ = "number"
           /\ Number(e.uniqueIds[k]) # CurrentId(e)
     /\ \A j, k \in 1..Len(e.uniqueIds) :
           Number(e.uniqueIds[j]) = Number(e.uniqueIds[k]) => j = k
     /\ {Number(e.uniqueIds[k]) : k \in 1..Len(e.uniqueIds)} = e.found \ {CurrentId(e)}

C12_SelfExclusion == \A i \in Invocations : C12_Holds(inv[i])

C12_Witness ==
  \E i \in Invocations :
     /\ Searched(inv[i])
     /\ CurrentId(inv[i]) \in inv[i].found
     /\ inv[i].returned = 3
     /\ Cardinality(inv[i].found) = 2
     /\ Len(inv[i].uniqueIds) = 1

(* C13: over all invocations triggered on one record, a merge request      *)
(* naming that record as the object to merge away is issued at most once.  *)
MergesItselfAway(e) ==
  \E k \in 1..Len(e.calls) :
     e.calls[k].api = "merge" /\ Number(e.calls[k].objectIdToMerge) = CurrentId(e)

C13_MergedAwayAtMostOnce ==
  \A n \in Ids :
     Cardinality({i \in Invocations :
                    CurrentId(inv[i]) = n /\ MergesItselfAway(inv[i])}) <= 1

(* C14: record n is stuck when an invocation marked it 'merged', the merge *)
(* request that followed failed, and the record is still in the store      *)
(* with status 'merged'.                                                   *)
Stuck(store, n) ==
  /\ n \in DOMAIN store
  /\ store[n][DEDUPLICATION_STATUS_PROPERTY] = "merged"
  /\ \E i \in Invocations :
        /\ inv[i].replies = <<"ok", "ok", "ok", "error">>
        /\ IsUpdate(inv[i].calls[3], n, "merged")

\* invocation j, triggered on a stuck record, has its fetch answered
Retriggered(j) ==
  /\ j <= Len(inv)
  /\ inv[j].pc = "getById"
  /\ inv'[j].replies = <<"ok">>
  /\ Stuck(companies, CurrentId(inv[j]))

(* C14 as stated: the re-trigger on a stuck record leaves the record       *)
(* merged away or no longer marked 'merged'.                               *)
C14_SelfCorrects ==
  [][\A j \in 1..Len(inv') :
       Retriggered(j) => ~Stuck(companies', CurrentId(inv[j]))]_vars

(* C14 amended: the re-trigger on a stuck record ends at the status gate:  *)
(* it reports "already merged", issues no further call and changes no      *)
(* record, so the record stays stuck.                                      *)
C14_StaysStuck ==
  [][\A j \in 1..Len(inv') :
       Retriggered(j) =>
          /\ companies' = companies
          /\ Stuck(companies', CurrentId(inv[j]))
          /\ inv'[j].pc = "done"
          /\ inv'[j].calls = <<GetByIdCall(inv[j].objectId)>>
          /\ Len(inv'[j].outputs) = 1
          /\ inv'[j].outputs[1].outputFields.result = "Already merged into another company"]_vars

C14_Witness ==
  \E j \in Invocations :
     /\ Stuck(companies, CurrentId(inv[j]))
     /\ inv[j].replies = <<"ok">>
     /\ FetchedStatus(inv[j]) = "merged"
     /\ inv[j].pc = "done"
     /\ \E i \in Invocations :
           /\ i # j
           /\ inv[i].pc = "rejected"
           /\ CurrentId(inv[i]) = CurrentId(inv[j])
           /\ MergesItselfAway(inv[i])

(* C15: an invocation has at most one remote call outstanding, issues a    *)
(* call only after every earlier call was answered with success, issues    *)
(* its calls in the order fetch, search, 'merged' mark, merge, 'primary'   *)
(* mark, and has no call outstanding once it has ended.                    *)
Rank(c) ==
  CASE c.api = "getById" -> 1
    [] c.api = "doSearch" -> 2
    [] c.api = "update" /\ c.deduplication_status = "merged" -> 3
    [] c.api = "merge" -> 4
    [] c.api = "update" /\ c.deduplication_status = "primary" -> 5

C15_Holds(e) ==
  /\ Len(e.calls) - Len(e.replies) \in {0, 1}
  /\ \A k \in 1..Len(e.replies) : k < Len(e.calls) => e.replies[k] = "ok"
  /\ Rank(e.calls[1]) = 1
  /\ \A k \in 1..(Len(e.calls) - 1) : Rank(e.calls[k]) < Rank(e.calls[k + 1])
  /\ e.pc \in {"done", "rejected"} <=> Len(e.calls) = Len(e.replies)

C15_SequentialCalls == \A i \in Invocations : C15_Holds(inv[i])

C15_Witness ==
  \E i \in Invocations :
     /\ [k \in 1..Len(inv[i].calls) |-> Rank(inv[i].calls[k])] = <<1, 2, 3, 4, 5>>
     /\ inv[i].replies = <<"ok", "ok", "ok", "ok">>
     /\ inv[i].pc = "markAsPrimary"

(* C16: when the first invocation finds its record canonical with n        *)
(* duplicates, the k-th successive invocation on that record (k <= n)      *)
(* merges one duplicate and reports remainingDuplicates = n - k, leaving   *)
(* n - k of the duplicates in the store; every later invocation reports    *)
(* "marked as primary" and leaves the record with status 'primary' and     *)
(* none of the duplicates in the store.                                    *)
C16_Holds(k) ==
  LET first == inv[1]
      e == inv[k]
      n == Cardinality(CandidateSet(first))
      left == CandidateSet(first) \cap DOMAIN companies
  IN  (InBranchA(first) /\ e.pc = "done") =>
        /\ Len(e.outputs) = 1
        /\ e.outputs[1].outputFields.primaryCompanyId = first.objectId
        /\ k <= n =>
              /\ e.outputs[1].outputFields.result
                    = "Successfully merged duplicate into this company"
              /\ e.outputs[1].outputFields.remainingDuplicates = n - k
              /\ Number(e.outputs[1].outputFields.mergedCompanyId) \in CandidateSet(first)
        /\ k > n => e.outputs[1].outputFields.result = "Marked as primary"
        /\ k = Len(inv) =>
              /\ CurrentId(first) \in DOMAIN companies
              /\ companies[CurrentId(first)][DEDUPLICATION_STATUS_PROPERTY] = "primary"
              /\ Cardinality(left) = (IF k <= n THEN n - k ELSE 0)

C16_Convergence == \A k \in Invocations : C16_Holds(k)

C16_Witness ==
  /\ Len(inv) = 3
  /\ InBranchA(inv[1])
  /\ Cardinality(CandidateSet(inv[1])) = 2
  /\ inv[1].outputs[1].outputFields.remainingDuplicates = 1
  /\ inv[2].outputs[1].outputFields.remainingDuplicates = 0
  /\ inv[3].pc = "done"
  /\ inv[3].outputs[1].outputFields.result = "Marked as primary"
  /\ DOMAIN companies = {CurrentId(inv[1])}

(* C17 as stated: the duplicate absorbed by a canonical record is the      *)
(* lowest-id candidate, whatever the order of the search answer.           *)
C17_LowestDuplicate ==
  \A i \in Invocations :
     InBranchA(inv[i]) =>
        IsUpdate(inv[i].calls[3], Min(CandidateSet(inv[i])), "merged")

(* C17 amended: the duplicate absorbed by a canonical record is the first  *)
(* candidate in the order of the search answer: it is the record marked    *)
(* 'merged' and the record named by the merge request; it is the           *)
(* lowest-id candidate when the answer lists the candidates in ascending   *)
(* order.                                                                  *)
Ascending(ids) ==
  \A j, k \in 1..Len(ids) : j < k => Number(ids[j]) < Number(ids[k])

C17_Holds(e) ==
  InBranchA(e) =>
     /\ IsUpdate(e.calls[3], Number(e.uniqueIds[1]), "merged")
     /\ Len(e.calls) >= 4 =>
           IsMerge(e.calls[4], CurrentId(e), Number(e.uniqueIds[1]))
     /\ Ascending(e.uniqueIds) =>
           IsUpdate(e.calls[3], Min(CandidateSet(e)), "merged")

C17_FirstReturned == \A i \in Invocations : C17_Holds(inv[i])

C17_Witness ==
  \E i \in Invocations :
     /\ InBranchA(inv[i])
     /\ inv[i].uniqueIds = <<JSString(10), JSString(9)>>
     /\ Len(inv[i].calls) >= 4
     /\ IsMerge(inv[i].calls[4], 2, 10)

(* C18: for a fetched record with a name, the search request carries one   *)
(* filter group per secondary property that has a value, each group being  *)
(* <<name EQ value, that property EQ its value>>; when no secondary        *)
(* property has a value it carries the single group <<name EQ value>>;     *)
(* the groups are alternatives: the records found are those with the name  *)
(* and, when some secondary property has a value, one of these values;     *)
(* the step that builds the criteria always issues the next call.          *)
PresentSecondary(properties) ==
  {prop \in Range(SECONDARY_PROPERTIES) : properties[prop] # NoValue}

NameEquals(properties) ==
  [propertyName |-> DEDUPE_PROPERTY, operator |-> "EQ",
   value |-> properties[DEDUPE_PROPERTY]]

C18_Holds(e) ==
  LET properties == e.companyResult.properties
      present == PresentSecondary(properties)
      fg == e.calls[2].filterGroups
  IN  (Fetched(e) /\ FetchedStatus(e) # "merged") =>
        /\ Len(e.calls) >= 2
        /\ e.pc # "rejected"
        /\ properties[DEDUPE_PROPERTY] # NoValue =>
              /\ e.calls[2].api = "doSearch"
              /\ \A k \in 1..Len(fg) : fg[k].filters[1] = NameEquals(properties)
              /\ present = {} => fg = <<[filters |-> <<NameEquals(properties)>>]>>
              /\ present # {} =>
                    /\ Len(fg) = Cardinality(present)
                    /\ \A prop \in present :
                          Cardinality({k \in 1..Len(fg) :
                             fg[k].filters = <<NameEquals(properties),
                                               [propertyName |-> prop, operator |-> "EQ",
                                                value |-> properties[prop]]>>}) = 1
              /\ Searched(e) =>
                    e.found = {n \in DOMAIN companies :
                                 /\ companies[n][DEDUPE_PROPERTY] = properties[DEDUPE_PROPERTY]
                                 /\ present # {} =>
                                       \E prop \in present :
                                          companies[n][prop] = properties[prop]}

C18_QueryShape == \A i \in Invocations : C18_Holds(inv[i])

C18_Witness ==
  \E i \in Invocations :
     /\ Searched(inv[i])
     /\ Cardinality(PresentSecondary(inv[i].companyResult.properties)) = 2
     /\ inv[i].companyResult.properties["domain"] = "acme.org"
     /\ Len(inv[i].calls[2].filterGroups) = 2
     /\ inv[i].found = {2, 9}

(* C19: every payload reporting a merge or a primary marking has a field   *)
(* primaryCompanyId, whose value is the id of the record that a successful *)
(* status update of this invocation marked 'primary': the current record   *)
(* for "Marked as primary" and for a duplicate merged into it, primaryId   *)
(* for the current record merged into the primary company.                 *)
MarkedPrimary(e) ==
  {Number(e.calls[k].companyId) :
     k \in {j \in 1..Len(e.replies) :
               /\ e.replies[j] = "ok"
               /\ e.calls[j].api = "update"
               /\ e.calls[j].deduplication_status = "primary"}}

ReportsChange(o) ==
  o.outputFields.result \in {"Marked as primary",
                              "Successfully merged duplicate into this company",
                              "Successfully merged into primary company"}

C19_Holds(e) ==
  \A k \in 1..Len(e.outputs) :
     LET o == e.outputs[k].outputFields
     IN  ReportsChange(e.outputs[k]) =>
           /\ "primaryCompanyId" \in DOMAIN o
           /\ MarkedPrimary(e) = {Number(o.primaryCompanyId)}
           /\ o.result = "Successfully merged into primary company" =>
                 (InBranchB(e) /\ Number(o.primaryCompanyId) = Canonical(e)
                  /\ o.primaryCompanyId = e.primaryId)
           /\ o.result # "Successfully merged into primary company" =>
                 o.primaryCompanyId = e.objectId

C19_CanonicalIdReported == \A i \in Invocations : C19_Holds(inv[i])

C19_Witness ==
  \E i, j \in Invocations :
     /\ inv[i].pc = "done" /\ InBranchB(inv[i])
     /\ Number(inv[i].outputs[1].outputFields.primaryCompanyId) = Canonical(inv[i])
     /\ MarkedPrimary(inv[i]) = {Canonical(inv[i])}
     /\ inv[j].pc = "done" /\ InBranchA(inv[j])
     /\ inv[j].outputs[1].outputFields.primaryCompanyId = inv[j].objectId
     /\ MarkedPrimary(inv[j]) = {CurrentId(inv[j])}

(* C20: when an invocation has set the status of a record to 'merged', no  *)
(* invocation started after it names that record as the primary of a merge *)
(* request or sets its status to 'primary'.                                *)
MarkedMerged(e) ==
  {Number(e.calls[k].companyId) :
     k \in {j \in 1..Len(e.replies) :
               /\ e.replies[j] = "ok"
               /\ e.calls[j].api = "update"
               /\ e.calls[j].deduplication_status = "merged"}}

C20_MergedIsFinal ==
  \A i, j \in Invocations :
     (i < j /\ Ended(inv[i])) =>
        \A x \in MarkedMerged(inv[i]) :
           \A k \in 1..Len(inv[j].calls) :
              /\ ~ (inv[j].calls[k].api = "merge"
                     /\ Number(inv[j].calls[k].primaryObjectId) = x)
              /\ ~ IsUpdate(inv[j].calls[k], x, "primary")

(* C21: an invocation hands callback at most one payload; when all its     *)
(* remote calls have been answered and none failed it has handed callback  *)
(* exactly one payload; an invocation that merged a duplicate into the     *)
(* current record has delivered the merge result and no "Marked as         *)
(* primary" result.                                                        *)
AllAnswered(e) == Len(e.replies) = Len(e.calls)

C21_Holds(e) ==
  /\ Len(e.outputs) <= 1
  /\ (AllAnswered(e) /\ AllOk(e)) => (e.pc = "done" /\ Len(e.outputs) = 1)
  /\ e.pc = "done" => Len(e.outputs) = 1
  /\ (InBranchA(e) /\ e.pc = "done") =>
        e.outputs = <<MergedDuplicateOutput(e.objectId, e.uniqueIds[1], e.uniqueIds)>>
  /\ InBranchA(e) =>
        \A k \in 1..Len(e.outputs) :
           e.outputs[k].outputFields.result # "Marked as primary"

C21_ExactlyOneResult == \A i \in Invocations : C21_Holds(inv[i])

C21_Witness ==
  \E i \in Invocations :
     /\ InBranchA(inv[i])
     /\ inv[i].pc = "done"
     /\ AllAnswered(inv[i]) /\ AllOk(inv[i])
     /\ Len(inv[i].calls) = 5
     /\ IsUpdate(inv[i].calls[5], CurrentId(inv[i]), "primary")
     /\ Len(inv[i].outputs) = 1
     /\ inv[i].outputs[1].outputFields.result =
           "Successfully merged duplicate into this company"

====
